---- MODULE Spec2Model ----
(***************************************************************************)
(* A model of the tptmp relay server: the registry (server.js), the rooms  *)
(* (room.js) and the client sessions (client.js).  Every socket event and  *)
(* every resumption of a session's dataHandler runs to completion on the   *)
(* single node event loop, so each of them is one atomic action.           *)
(*                                                                         *)
(* Byte strings (nicknames, room names, frames) are sequences of byte      *)
(* values.  The text of a server message is a string literal of the        *)
(* source; it is written here as one symbol >= 1000 per literal.           *)
(***************************************************************************)
EXTENDS Integers, Sequences, FiniteSets, TLC

\* ------------------------------------------------------------------ bounds

\* Number of Client objects alive at a time (slots 1..MaxSessions; a slot is
\* taken on accept and given back when the socket has closed).
MaxSessions == 2

Sessions == 1..MaxSessions

\* Number of brush shape changes (opcode 35) a session sends.
MaxBrushChanges == 1

\* Number of mirror fields (brush-selection slots, the chat flag) that the
\* opcode 37 messages of a session change.
MaxSelects == 1

\* ------------------------------------------------------- program constants

\* server.js:46  the registry's cap
MaxClients == 255
\* client.js:30  ids are searched in 0..255
IdSearchEnd == 256

\* constants.js is not among the sources: the version window and the script
\* version are taken from the configuration the specification describes.
MAJOR_MIN == 1
MINOR_MIN == 2
MAJOR_MAX == 1
MINOR_MAX == 9
SCRIPT == 0

\* ------------------------------------------------------------- JS values

\* undefined / no value, for numbers (an id never assigned, a byte past the
\* end of a buffer)
Undef == -1
\* null, for byte strings (Client.nick, and the name of Client.room)
Null == <<-1>>

\* 'null', the lobby
Lobby == <<110, 117, 108, 108>>
\* 'r'
RoomR == <<114>>
\* 'a', 'b'
NickA == <<97>>
NickB == <<98>>

\* Room.op holds whatever the code stores there: null, a client id, a Client
\* object or undefined.
OpNull == <<"null", 0>>
OpId(i) == <<"id", i>>
OpClient(s) == <<"client", s>>
OpUndefined == <<"undefined", 0>>

\* a fresh Room (room.js:10-15)
NewRoom == [clients |-> <<>>, op |-> OpNull]

VARIABLES
  pc,          \* where each session's dataHandler is: unused, handshake, main, done
  id,          \* Client.id
  nick,        \* Client.nick
  room,        \* name of Client.room, Null when Client.room is null
  sock,        \* the session's socket: none, open, ended, dead
  brush,       \* Client.brush
  brushSelection, \* Client.brushSelection: slot i of the array at position i + 1
  isChat,      \* Client.isChat
  clients,     \* TPTMPServer.clients: id -> session
  rooms,       \* TPTMPServer.rooms: name -> [clients, op]
  log          \* what the last handler did, in order: <<kind, session, bytes>>

vars == <<pc, id, nick, room, sock, brush, brushSelection, isChat, clients, rooms, log>>

\* ------------------------------------------------------------- helpers

Range(f) == {f[i] : i \in DOMAIN f}

RECURSIVE Flatten(_)
Flatten(ss) == IF ss = <<>> THEN <<>> ELSE Head(ss) \o Flatten(Tail(ss))

Repeat(x, n) == [i \in 1..n |-> x]

MapRemove(f, k) == [x \in (DOMAIN f) \ {k} |-> f[x]]
MapPut(f, k, v) == [x \in (DOMAIN f) \cup {k} |-> IF x = k THEN v ELSE f[x]]

Write(s, buf) == <<"write", s, buf>>
Emit(name, s, arg) == <<name, s, arg>>

\* /^[\w-_]+$/ (client.js:125, client.js:155)
IsWordByte(c) == c \in (48..57) \cup (65..90) \cup (97..122) \cup {95, 45}
MatchesName(str) == Len(str) >= 1 /\ \A i \in 1..Len(str) : IsWordByte(str[i])
\* /^[ -~]*$/ (client.js:166, client.js:197)
MatchesPrintable(str) == \A i \in 1..Len(str) : str[i] \in 32..126

\* the initial values of the mirror fields (client.js:20-26)
BrushSize == <<4, 4>>
BrushSelection == << <<0, 1>>, <<64, 0>>, <<128, 0>>, <<192, 0>> >>
ReplaceMode == <<48>>
Deco == <<0, 0, 0, 0>>


\* string literals of client.js, one symbol each
TxtOutOfDate == 1001
TxtTooNew == 1002
TxtBadNick == 1003
TxtNickTooLong == 1004
TxtNickTaken == 1005
TxtInvalidRoom == 1006
TxtBadReason == 1007
TxtReasonTooLong == 1008
TxtNoLobbyKick == 1009
TxtNoKickHere == 1010
TxtKickedBy == 1011
TxtNoReason == 1012
TxtServerFull == 1013

\* ------------------------------------------------- the handler's world
\* A handler runs a chain of synchronous calls.  Each call is an operator
\* from the state before it to the state after it; the state is carried as a
\* record W of the fields the calls change, W.log the calls' effects in order
\* and W.threw whether a TypeError has ended the handler.

World == [clients |-> clients, rooms |-> rooms, room |-> room, sock |-> sock,
          nick |-> nick, log |-> <<>>, threw |-> FALSE]

Logged(W, entries) == [W EXCEPT !.log = @ \o entries]

\* Room.send(buf, except): every member whose id is not except.id
RoomSend(W, r, buf, exceptId) ==
  LET to == SelectSeq(W.rooms[r].clients, LAMBDA m : id[m] # exceptId)
  IN  Logged(W, [i \in 1..Len(to) |-> Write(to[i], buf)])

\* Room.requestSync(client): the first member that is not in chat mode and
\* does not carry the client's id is sent [128, client.id]
RoomRequestSync(W, r, c) ==
  LET ok == SelectSeq(W.rooms[r].clients,
                      LAMBDA m : ~isChat[m] /\ id[m] # id[c])
  IN  IF ok = <<>> THEN W
      ELSE Logged(W, << Write(Head(ok), <<128, id[c]>>) >>)

\* the frames Room.join writes to the joiner for one member m (room.js:54-66)
ReplayOf(c, m) ==
     Repeat(Write(c, <<35, id[m]>>), brush[m])
  \o << Write(c, <<34, id[m]>> \o BrushSize) >>
  \o [i \in 1..4 |-> Write(c, <<37, id[m]>> \o brushSelection[m][i])]
  \o << Write(c, <<38, id[m]>> \o ReplaceMode),
        Write(c, <<65, id[m]>> \o Deco) >>

\* the roster Room.join writes to the joiner (room.js:50-53)
RosterOf(W, c, members) ==
     << Write(c, <<16, Len(members)>>) >>
  \o [i \in 1..Len(members) |->
        Write(c, <<id[members[i]]>> \o W.nick[members[i]] \o <<0>>)]

\* Room.join with the joiner added to the member set first
RoomJoinAddsFirst(W, r, c) ==
  LET members == W.rooms[r].clients IN
  IF c \in Range(members) THEN W
  ELSE
    LET W1 == IF Len(members) = 0
              THEN [W EXCEPT !.rooms[r].op = OpId(id[c])] ELSE W
        W2 == [W1 EXCEPT !.rooms[r].clients = Append(@, c)]
        all == W2.rooms[r].clients
        W3 == Logged(W2, << Emit("room.emit:join", c, r) >>
                   \o RosterOf(W, c, all)
                   \o Flatten([i \in 1..Len(all) |-> ReplayOf(c, all[i])]))
        W4 == RoomSend(W3, r, <<17, id[c]>> \o W.nick[c] \o <<0>>, id[c])
    IN  RoomRequestSync(W4, r, c)

\* Room.join(client)
RoomJoin(W, r, c) ==
  LET members == W.rooms[r].clients IN
  IF c \in Range(members) THEN W
  ELSE
    LET W1 == IF Len(members) = 0
              THEN [W EXCEPT !.rooms[r].op = OpId(id[c])] ELSE W
        W2 == Logged(W1, << Emit("room.emit:join", c, r) >>
                   \o RosterOf(W, c, members)
                   \o Flatten([i \in 1..Len(members) |-> ReplayOf(c, members[i])]))
        W3 == RoomSend(W2, r, <<17, id[c]>> \o W.nick[c] \o <<0>>, id[c])
        W4 == RoomRequestSync(W3, r, c)
    IN  [W4 EXCEPT !.rooms[r].clients = Append(@, c)]

\* Room.part(client)
RoomPart(W, r, c) ==
  LET W1   == Logged(W, << Emit("room.emit:part", c, r) >>)
      rest == SelectSeq(W1.rooms[r].clients, LAMBDA m : m # c)
      op   == W1.rooms[r].op
      op2  == IF op = OpId(id[c])
              THEN IF rest = <<>> THEN OpUndefined ELSE OpClient(Head(rest))
              ELSE op
      W2   == [W1 EXCEPT !.rooms[r] = [clients |-> rest, op |-> op2]]
  IN  RoomSend(W2, r, <<18, id[c]>>, id[c])

\* TPTMPServer.join(client, r)
ServerJoin(W, c, r) ==
  LET W1 == IF r \in DOMAIN W.rooms THEN W
            ELSE Logged([W EXCEPT !.rooms = MapPut(@, r, NewRoom)],
                        << Emit("server.emit:roomCreate", c, r) >>)
      W2 == RoomJoin(W1, r, c)
  IN  Logged(W2, << Emit("server.emit:join", c, r) >>)

\* TPTMPServer.part without the removal of the emptied room
ServerPartKeepsRoom(W, c, r) ==
  LET W1 == Logged(W, << Emit("server.emit:part", c, r) >>) IN
  IF r = Null THEN [W1 EXCEPT !.threw = TRUE] ELSE RoomPart(W1, r, c)

\* TPTMPServer.part(client, room); room.part(client) on a null room is a
\* TypeError, thrown after the 'part' event went out
ServerPart(W, c, r) ==
  LET W1 == Logged(W, << Emit("server.emit:part", c, r) >>) IN
  IF r = Null THEN [W1 EXCEPT !.threw = TRUE]
  ELSE
    LET W2 == RoomPart(W1, r, c) IN
    IF Len(W2.rooms[r].clients) = 0
    THEN Logged([W2 EXCEPT !.rooms = MapRemove(@, r)],
                << Emit("server.emit:roomDelete", c, r) >>)
    ELSE W2

\* TPTMPServer.disconnect(client, reason)
ServerDisconnect(W, c) ==
  LET W1 == Logged(W, << Emit("server.emit:disconnect", c, <<>>) >>)
  IN  Logged([W1 EXCEPT !.clients = MapRemove(@, id[c])],
             << Emit("clients.delete", c, <<id[c]>>) >>)

\* Client.join(r)
ClientJoin(W, c, r) ==
  LET W1 == ServerJoin(W, c, r)
  IN  Logged([W1 EXCEPT !.room[c] = r], << Emit("emit:join", c, r) >>)

\* Client.part()
ClientPart(W, c) ==
  LET W1 == Logged(W, << Emit("emit:part", c, W.room[c]) >>)
      W2 == ServerPart(W1, c, W1.room[c])
  IN  IF W2.threw THEN W2 ELSE [W2 EXCEPT !.room[c] = Null]

\* socket.end(): the server's side of the connection is finished
SocketEndCall(W, c) ==
  Logged([W EXCEPT !.sock[c] = IF @ = "open" THEN "ended" ELSE @],
         << Emit("socket.end", c, <<>>) >>)

\* Client.disconnect(reason)
ClientDisconnect(W, c) ==
  LET W1 == Logged(W, << Emit("emit:disconnect", c, <<>>) >>)
      W2 == ServerDisconnect(W1, c)
      W3 == SocketEndCall(W2, c)
  IN  IF W3.room[c] # Null THEN ClientPart(W3, c) ELSE W3

\* Client.serverMessage(message, r, g, b)
ServerMessage(W, c, text, r, g, b) ==
  Logged(W, << Write(c, <<22>> \o text \o <<0, r, g, b>>) >>)

\* Client.kick(source, reason)
ClientKick(W, c, source, reason) ==
  LET text == <<TxtKickedBy>> \o W.nick[source] \o <<32, 40>> \o reason \o <<41>>
      W1 == ServerMessage(W, c, text, 255, 50, 50)
      W2 == Logged(W1, << Emit("emit:kicked", c, reason) >>)
  IN  ClientDisconnect(W2, c)

\* Client.sendToRoom(message): to the current room, except this client
ClientSendToRoom(W, c, buf) ==
  IF W.room[c] # Null THEN RoomSend(W, W.room[c], buf, id[c]) ELSE W

\* the handler's result becomes the next state
Commit(W) ==
  /\ clients' = W.clients
  /\ rooms' = W.rooms
  /\ room' = W.room
  /\ nick' = W.nick
  /\ sock' = W.sock
  /\ log' = W.log


\* the handler's first entry: the event that woke it (for a message, its opcode)
Start(kind, s, bytes) == Logged(World, << Emit(kind, s, bytes) >>)

\* ------------------------------------------------------------ inputs

\* handshake records (the bytes before the NUL): accepted ones for two
\* nicknames, and one for each way to be turned away
VersionOk == <<MAJOR_MIN, MINOR_MIN, SCRIPT>>
HandshakeInputs ==
  { VersionOk \o NickA, VersionOk \o NickB,
    <<MAJOR_MIN, MINOR_MIN - 1, SCRIPT>> \o NickA,
    <<MAJOR_MAX, MINOR_MAX + 1, SCRIPT>> \o NickA,
    <<MAJOR_MIN, MINOR_MIN, SCRIPT + 1>> \o NickA,
    VersionOk \o <<33>>,
    VersionOk \o Repeat(97, 33) }

RoomInputs == { Lobby, RoomR, <<33>> }
KickNickInputs == { NickA, NickB }
KickReasonInputs == { <<>>, <<120>>, <<7>> }
ClickInputs == { <<1>> }
\* an opcode outside the dispatch table, alone or followed by a click message
UnknownInputs == { 99 }
UnknownTailInputs == { <<>>, <<33, 1>> }
\* opcode 37 payloads: the chat marker, one that shares its first byte, two
\* selections for the first button and one for the last
SelectInputs == { <<194, 195>>, <<194, 1>>, <<1, 2>>, <<2, 2>>, <<200, 3>> }

\* buf[i] of a JS buffer (0-based): undefined past the end
ByteAt(buf, i) == IF i + 1 <= Len(buf) THEN buf[i + 1] ELSE Undef
\* a < b, a > b, a === b on numbers that may be undefined
JsLt(a, b) == a # Undef /\ b # Undef /\ a < b
JsGt(a, b) == a # Undef /\ b # Undef /\ a > b

\* ------------------------------------------------------------ the registry

\* Client constructor, "find an id": the lowest i in 0..255 with no entry
FindId(table) ==
  LET free == { i \in 0..(IdSearchEnd - 1) : i \notin DOMAIN table }
  IN  IF free = {} THEN Undef
      ELSE CHOOSE i \in free : \A j \in free : i <= j

\* _connectionHandler with the cap tested by > instead of >=
AcceptOffByOne(s) ==
  /\ pc[s] = "unused"
  /\ \A t \in Sessions : t < s => pc[t] # "unused"
  /\ IF Cardinality(DOMAIN clients) > MaxClients
     THEN /\ log' = << Emit("on:connection", s, <<>>),
                       Write(s, <<0, TxtServerFull, 0>>),
                       Emit("socket.end", s, <<>>) >>
          /\ UNCHANGED <<pc, id, nick, room, sock, brush, brushSelection, isChat, clients, rooms>>
     ELSE LET i == FindId(clients) IN
          /\ id' = [id EXCEPT ![s] = i]
          /\ clients' = MapPut(clients, i, s)
          /\ pc' = [pc EXCEPT ![s] = "handshake"]
          /\ sock' = [sock EXCEPT ![s] = "open"]
          /\ log' = << Emit("on:connection", s, <<>>) >>
          /\ UNCHANGED <<nick, room, brush, brushSelection, isChat, rooms>>

\* TPTMPServer._connectionHandler(socket), with new Client(server, socket)
Accept(s) ==
  /\ pc[s] = "unused"
  /\ \A t \in Sessions : t < s => pc[t] # "unused"
  /\ IF Cardinality(DOMAIN clients) >= MaxClients
     THEN /\ log' = << Emit("on:connection", s, <<>>),
                       Write(s, <<0, TxtServerFull, 0>>),
                       Emit("socket.end", s, <<>>) >>
          /\ UNCHANGED <<pc, id, nick, room, sock, brush, brushSelection, isChat, clients, rooms>>
     ELSE LET i == FindId(clients) IN
          /\ id' = [id EXCEPT ![s] = i]
          /\ clients' = MapPut(clients, i, s)
          /\ pc' = [pc EXCEPT ![s] = "handshake"]
          /\ sock' = [sock EXCEPT ![s] = "open"]
          /\ log' = << Emit("on:connection", s, <<>>) >>
          /\ UNCHANGED <<nick, room, brush, brushSelection, isChat, rooms>>

\* the socket's 'timeout' event: 90 s without traffic (client.js:41-42)
SocketTimeout(s) ==
  /\ sock[s] \in {"open", "ended"}
  /\ Commit(ClientDisconnect(Start("on:timeout", s, <<>>), s))
  /\ UNCHANGED <<pc, id, brush, brushSelection, isChat>>

\* the socket's 'error' event (client.js:43); the socket is destroyed
SocketError(s) ==
  /\ sock[s] \in {"open", "ended"}
  /\ Commit([ClientDisconnect(Start("on:error", s, <<>>), s) EXCEPT !.sock[s] = "dead"])
  /\ UNCHANGED <<pc, id, brush, brushSelection, isChat>>

\* the socket's 'end' event: the peer's FIN, all its bytes read (client.js:44)
SocketEnd(s) ==
  /\ sock[s] \in {"open", "ended"}
  /\ Commit([ClientDisconnect(Start("on:end", s, <<>>), s) EXCEPT !.sock[s] = "dead"])
  /\ UNCHANGED <<pc, id, brush, brushSelection, isChat>>

\* the socket's 'close' event (client.js:45): this.connected = false.  No
\* event follows it and, 'end' or 'error' having run disconnect, neither the
\* registry nor a room refers to the session: the object is garbage, and its
\* slot is free for the next connection.
SocketClose(s) ==
  /\ sock[s] = "dead"
  /\ sock' = [sock EXCEPT ![s] = "none"]
  /\ pc' = [pc EXCEPT ![s] = "unused"]
  /\ id' = [id EXCEPT ![s] = Undef]
  /\ nick' = [nick EXCEPT ![s] = Null]
  /\ brush' = [brush EXCEPT ![s] = 0]
  /\ brushSelection' = [brushSelection EXCEPT ![s] = BrushSelection]
  /\ isChat' = [isChat EXCEPT ![s] = FALSE]
  /\ log' = << Emit("on:close", s, <<>>) >>
  /\ UNCHANGED <<room, clients, rooms>>

\* ------------------------------------------------------------ the handshake

\* the nickname is held by a registered client under another id
NickTaken(s, n) ==
  \E k \in DOMAIN clients :
    clients[k] \in Sessions /\ nick[clients[k]] = n /\ k # id[s]

\* dataHandler up to the main loop (client.js:95-147), resumed when the
\* record's NUL has been read
Handshake(s, buf, hookOk) ==
  LET major == ByteAt(buf, 0)
      minor == ByteAt(buf, 1)
      scriptVer == ByteAt(buf, 2)
      n == SubSeq(buf, 4, Len(buf))
      W0 == Start("on:handshake", s, <<>>)
      Named(W, v) == [W EXCEPT !.nick[s] = v]
      Reject(W, text) == ClientDisconnect(Logged(W, << Write(s, <<0, text, 0>>) >>), s)
  IN
  /\ pc[s] = "handshake"
  /\ sock[s] \in {"open", "ended"}
  /\ UNCHANGED <<id, brush, brushSelection, isChat>>
  /\ IF JsLt(major, MAJOR_MIN) \/ (major = MAJOR_MIN /\ JsLt(minor, MINOR_MIN))
     THEN /\ Commit(Reject(W0, TxtOutOfDate))
          /\ pc' = [pc EXCEPT ![s] = "done"]
     ELSE IF JsGt(major, MAJOR_MAX) \/ (major = MAJOR_MAX /\ JsGt(minor, MINOR_MAX))
     THEN /\ Commit(Reject(W0, TxtTooNew))
          /\ pc' = [pc EXCEPT ![s] = "done"]
     ELSE IF scriptVer # SCRIPT
     THEN \* this.constants is undefined: building the message throws
          /\ Commit([W0 EXCEPT !.threw = TRUE])
          /\ pc' = [pc EXCEPT ![s] = "done"]
     ELSE IF ~MatchesName(n)
     THEN /\ Commit(Reject(Named(W0, n), TxtBadNick))
          /\ pc' = [pc EXCEPT ![s] = "done"]
     ELSE IF Len(n) > 32
     THEN \* the error frame goes out, then the stored nick is cut to 64
          /\ Commit(Reject(Named(W0, SubSeq(n, 1, IF Len(n) < 64 THEN Len(n) ELSE 64)),
                           TxtNickTooLong))
          /\ pc' = [pc EXCEPT ![s] = "done"]
     ELSE IF NickTaken(s, n)
     THEN /\ Commit(Reject(Named(W0, n), TxtNickTaken))
          /\ pc' = [pc EXCEPT ![s] = "done"]
     ELSE LET W1 == Logged(Named(W0, n),
                           << Write(s, <<1>>), Emit("emit:identified", s, <<>>),
                              Emit("server.emit:newClient", s, <<>>),
                              Emit("hooks.connect", s, <<IF hookOk THEN 1 ELSE 0>>) >>)
          IN  /\ IF ~hookOk
                 THEN /\ Commit(W1)
                      /\ pc' = [pc EXCEPT ![s] = "done"]
                 ELSE /\ Commit(ClientJoin(W1, s, Lobby))
                      /\ pc' = [pc EXCEPT ![s] = "main"]


\* ------------------------------------------------------------ the main loop
\* One action per opcode: the loop is resumed when the opcode's last byte has
\* been read, and handles the message to completion (client.js:150-400).

InMainLoop(s) == pc[s] = "main" /\ sock[s] \in {"open", "ended"}

\* a TypeError ends dataHandler
AfterHandler(s, W) == pc' = [pc EXCEPT ![s] = IF W.threw THEN "done" ELSE @]

\* case 16: join
Op16Join(s, r, hookOk) ==
  LET W0 == Start("on:op", s, <<16>>)
      W  == IF ~MatchesName(r) \/ Len(r) > 32
            THEN ServerMessage(W0, s, <<TxtInvalidRoom>>, 127, 255, 255)
            ELSE LET Wh == Logged(W0, << Emit("hooks.join", s,
                                              <<IF hookOk THEN 1 ELSE 0>>) >>)
                     W1 == ClientPart(Wh, s)
                 IN  IF ~hookOk THEN Wh
                     ELSE IF W1.threw THEN W1 ELSE ClientJoin(W1, s, r)
  IN  /\ InMainLoop(s)
      /\ Commit(W)
      /\ AfterHandler(s, W)
      /\ UNCHANGED <<id, brush, brushSelection, isChat>>

\* case 21 without the test of room.op
Op21KickAnyone(s, n, reason) ==
  LET W0 == Start("on:op", s, <<21>> \o n \o <<0>> \o reason \o <<0>>)
      W  == IF ~MatchesPrintable(reason)
            THEN ServerMessage(W0, s, <<TxtBadReason>>, 127, 255, 255)
            ELSE IF Len(reason) > 200
            THEN ServerMessage(W0, s, <<TxtReasonTooLong>>, 127, 255, 255)
            ELSE IF room[s] = Null
            THEN [W0 EXCEPT !.threw = TRUE]
            ELSE IF room[s] = Lobby
            THEN ServerMessage(W0, s, <<TxtNoLobbyKick>>, 127, 255, 255)
            ELSE LET named == SelectSeq(rooms[room[s]].clients,
                                        LAMBDA c : nick[c] = n)
                 IN  IF named = <<>> THEN W0
                     ELSE ClientKick(W0, Head(named), s,
                                     IF reason = <<>> THEN <<TxtNoReason>> ELSE reason)
  IN  /\ InMainLoop(s)
      /\ Commit(W)
      /\ AfterHandler(s, W)
      /\ UNCHANGED <<id, brush, brushSelection, isChat>>

\* case 21: kick
Op21Kick(s, n, reason) ==
  LET W0 == Start("on:op", s, <<21>> \o n \o <<0>> \o reason \o <<0>>)
      W  == IF ~MatchesPrintable(reason)
            THEN ServerMessage(W0, s, <<TxtBadReason>>, 127, 255, 255)
            ELSE IF Len(reason) > 200
            THEN ServerMessage(W0, s, <<TxtReasonTooLong>>, 127, 255, 255)
            ELSE IF room[s] = Null
            THEN [W0 EXCEPT !.threw = TRUE]
            ELSE IF room[s] = Lobby
            THEN ServerMessage(W0, s, <<TxtNoLobbyKick>>, 127, 255, 255)
            ELSE IF rooms[room[s]].op # OpId(id[s])
            THEN ServerMessage(W0, s, <<TxtNoKickHere>>, 127, 255, 255)
            ELSE LET named == SelectSeq(rooms[room[s]].clients,
                                        LAMBDA c : nick[c] = n)
                 IN  IF named = <<>> THEN W0
                     ELSE ClientKick(W0, Head(named), s,
                                     IF reason = <<>> THEN <<TxtNoReason>> ELSE reason)
  IN  /\ InMainLoop(s)
      /\ Commit(W)
      /\ AfterHandler(s, W)
      /\ UNCHANGED <<id, brush, brushSelection, isChat>>

\* case 33: mouse click, relayed with its one byte
Op33Click(s, data) ==
  LET W == ClientSendToRoom(Start("on:op", s, <<33>> \o data), s, <<33, id[s]>> \o data)
  IN  /\ InMainLoop(s)
      /\ Commit(W)
      /\ UNCHANGED <<pc, id, brush, brushSelection, isChat>>

\* case 35: brush shape change
Op35Brush(s) ==
  LET W == ClientSendToRoom(Start("on:op", s, <<35>>), s, <<35, id[s]>>)
  IN  /\ InMainLoop(s)
      /\ brush[s] < MaxBrushChanges
      /\ brush' = [brush EXCEPT ![s] = (@ % 3) + 1]
      /\ Commit(W)
      /\ UNCHANGED <<pc, id, brushSelection, isChat>>

\* the case labels of the switch (client.js:153-390)
DispatchTable == {2, 16, 19, 20, 21, 128, 130} \cup (32..38) \cup (48..70)

\* An opcode byte no case matches, with the bytes that follow it in the same
\* chunk.  The switch has no default: nothing is done for the byte, the loop
\* reads the next byte as an opcode, and a 33 with its byte is then handled
\* by case 33 before any other event.
OpUnknown(s, cmd, rest) ==
  LET W0 == Start("on:op", s, <<cmd>> \o rest)
      W  == IF Len(rest) = 2 /\ rest[1] = 33
            THEN ClientSendToRoom(W0, s, <<33, id[s]>> \o Tail(rest))
            ELSE W0
  IN  /\ InMainLoop(s)
      /\ cmd \notin DispatchTable
      /\ Commit(W)
      /\ UNCHANGED <<pc, id, brush, brushSelection, isChat>>

\* array[i] = v on a JS array held as a sequence (index i at position i + 1);
\* writing at the index equal to the length appends
ArraySet(arr, i, v) ==
  IF i + 1 <= Len(arr) THEN [arr EXCEPT ![i + 1] = v] ELSE Append(arr, v)

\* the mirror fields opcode 37 has changed on a session so far
SelectsSeen(s) ==
  Cardinality({ i \in 1..Len(brushSelection[s]) :
                  i > Len(BrushSelection) \/ brushSelection[s][i] # BrushSelection[i] })
  + (IF isChat[s] THEN 1 ELSE 0)

\* case 37: selected element
Op37Select(s, data) ==
  LET button == data[1] \div 64
      W0 == Start("on:op", s, <<37>> \o data)
  IN  /\ InMainLoop(s)
      /\ SelectsSeen(s) < MaxSelects
      /\ IF data[1] # 194 /\ data[2] # 195
         THEN /\ brushSelection' = [brushSelection EXCEPT
                                      ![s] = ArraySet(@, button + 1, data)]
              /\ Commit(ClientSendToRoom(W0, s, <<37, id[s]>> \o data))
              /\ UNCHANGED isChat
         ELSE /\ isChat' = [isChat EXCEPT ![s] = TRUE]
              /\ Commit(W0)
              /\ UNCHANGED brushSelection
      /\ UNCHANGED <<pc, id, brush>>

\* ------------------------------------------------------------ specification

Init ==
  /\ pc = [s \in Sessions |-> "unused"]
  /\ id = [s \in Sessions |-> Undef]
  /\ nick = [s \in Sessions |-> Null]
  /\ room = [s \in Sessions |-> Null]
  /\ sock = [s \in Sessions |-> "none"]
  /\ brush = [s \in Sessions |-> 0]
  /\ brushSelection = [s \in Sessions |-> BrushSelection]
  /\ isChat = [s \in Sessions |-> FALSE]
  /\ clients = <<>>
  /\ rooms = <<>>
  /\ log = <<>>

Next ==
  \/ \E s \in Sessions : Accept(s)
  \/ \E s \in Sessions, buf \in HandshakeInputs, hookOk \in BOOLEAN : Handshake(s, buf, hookOk)
  \/ \E s \in Sessions : SocketTimeout(s)
  \/ \E s \in Sessions : SocketError(s)
  \/ \E s \in Sessions : SocketEnd(s)
  \/ \E s \in Sessions : SocketClose(s)
  \/ \E s \in Sessions, r \in RoomInputs, hookOk \in BOOLEAN : Op16Join(s, r, hookOk)
  \/ \E s \in Sessions, n \in KickNickInputs, reason \in KickReasonInputs : Op21Kick(s, n, reason)
  \/ \E s \in Sessions, data \in ClickInputs : Op33Click(s, data)

Spec == Init /\ [][Next]_vars

\* A registry that is nearly full.  The clients that fill it have been accepted
\* and have sent nothing yet (nick null, no room); they hold the ids 0..n-1 and
\* stay idle.  Crowd stands for their Client objects in the table.
Crowd == 0
CrowdSizes == { MaxClients - 2, MaxClients - 1 }

InitCap ==
  /\ pc = [s \in Sessions |-> "unused"]
  /\ id = [s \in Sessions |-> Undef]
  /\ nick = [s \in Sessions |-> Null]
  /\ room = [s \in Sessions |-> Null]
  /\ sock = [s \in Sessions |-> "none"]
  /\ brush = [s \in Sessions |-> 0]
  /\ brushSelection = [s \in Sessions |-> BrushSelection]
  /\ isChat = [s \in Sessions |-> FALSE]
  /\ \E n \in CrowdSizes : clients = [k \in 0..(n - 1) |-> Crowd]
  /\ rooms = <<>>
  /\ log = <<>>

SpecCap == InitCap /\ [][Next]_vars

\* the same, with clients that also change their brush shape
NextBrush == Next \/ \E s \in Sessions : Op35Brush(s)

SpecBrush == Init /\ [][NextBrush]_vars

\* the same as Spec, with clients that also send a byte no case matches
NextDesync ==
  Next \/ \E s \in Sessions, cmd \in UnknownInputs, rest \in UnknownTailInputs :
            OpUnknown(s, cmd, rest)

SpecDesync == Init /\ [][NextDesync]_vars

\* TPTMPServer.join(c, r) followed at once by TPTMPServer.part(c, room), for a
\* client past the handshake that is not a member of r, as one turn of the
\* event loop (the two registry methods called back to back)
JoinThenPart(c, r) ==
  /\ pc[c] = "main" /\ sock[c] = "open"
  /\ r \in DOMAIN rooms => c \notin Range(rooms[r].clients)
  /\ Commit(ServerPart(ServerJoin(Start("call:join-part", c, r), c, r), c, r))
  /\ UNCHANGED <<pc, id, brush, brushSelection, isChat>>

\* the same as Spec, with the registry's join and part called back to back
NextJoinPart ==
  Next \/ \E c \in Sessions, r \in {Lobby, RoomR} : JoinThenPart(c, r)

SpecJoinPart == Init /\ [][NextJoinPart]_vars

\* clients that connect, move between rooms, send opcode 37 and leave
NextSelect ==
  \/ \E s \in Sessions : Accept(s)
  \/ \E s \in Sessions, buf \in HandshakeInputs, hookOk \in BOOLEAN : Handshake(s, buf, hookOk)
  \/ \E s \in Sessions : SocketEnd(s)
  \/ \E s \in Sessions : SocketClose(s)
  \/ \E s \in Sessions, r \in RoomInputs, hookOk \in BOOLEAN : Op16Join(s, r, hookOk)
  \/ \E s \in Sessions, data \in SelectInputs : Op37Select(s, data)

SpecSelect == Init /\ [][NextSelect]_vars

\* the commands a sync-properties reply may carry (constants.VALID_130)
VALID_130 == {34, 35, 37, 38, 65}

\* opcode 128 payloads: the 4-byte header (target id, 3-byte big-endian size)
\* and a stamp of that size, for the two lowest ids
SyncReplyInputs == { <<0, 0, 0, 1, 170>>, <<1, 0, 0, 1, 170>> }
\* opcode 130 payloads: target id, command, value
SyncPropsInputs == { <<0, 34, 7>>, <<1, 34, 7>>, <<0, 99, 7>> }

\* case 128: sync reply, the stamp forwarded to the client the table holds
\* under the id of the header's first byte
Op128SyncReply(s, data, stamp) ==
  LET W0 == Start("on:op", s, <<128>> \o data \o stamp)
      size == data[2] * 65536 + data[3] * 256 + data[4]
      W  == IF data[1] \notin DOMAIN clients THEN W0
            ELSE Logged(W0, << Write(clients[data[1]],
                                     <<129>> \o Tail(data) \o stamp) >>)
  IN  /\ InMainLoop(s)
      /\ Len(data) = 4 /\ Len(stamp) = size
      /\ Commit(W)
      /\ UNCHANGED <<pc, id, brush, brushSelection, isChat>>

\* case 130: sync properties reply, one property forwarded to the client the
\* table holds under the id of the first byte
Op130SyncProps(s, data) ==
  LET W0 == Start("on:op", s, <<130>> \o data)
      W  == IF data[1] \notin DOMAIN clients \/ data[2] \notin VALID_130 THEN W0
            ELSE Logged(W0, << Write(clients[data[1]],
                                     <<data[2], id[s], data[3]>>) >>)
  IN  /\ InMainLoop(s)
      /\ Commit(W)
      /\ UNCHANGED <<pc, id, brush, brushSelection, isChat>>

\* clients that connect, move between rooms, answer sync requests and leave
NextSync ==
  \/ \E s \in Sessions : Accept(s)
  \/ \E s \in Sessions, buf \in HandshakeInputs, hookOk \in BOOLEAN : Handshake(s, buf, hookOk)
  \/ \E s \in Sessions : SocketEnd(s)
  \/ \E s \in Sessions : SocketClose(s)
  \/ \E s \in Sessions, r \in RoomInputs, hookOk \in BOOLEAN : Op16Join(s, r, hookOk)
  \/ \E s \in Sessions, buf \in SyncReplyInputs :
       Op128SyncReply(s, SubSeq(buf, 1, 4), SubSeq(buf, 5, Len(buf)))
  \/ \E s \in Sessions, data \in SyncPropsInputs : Op130SyncProps(s, data)

SpecSync == Init /\ [][NextSync]_vars

\* clients that connect, move between rooms, go idle or are kicked, and whose
\* bytes keep arriving until their FIN closes the socket
NextLate ==
  \/ \E s \in Sessions : Accept(s)
  \/ \E s \in Sessions, buf \in HandshakeInputs, hookOk \in BOOLEAN : Handshake(s, buf, hookOk)
  \/ \E s \in Sessions : SocketTimeout(s)
  \/ \E s \in Sessions : SocketEnd(s)
  \/ \E s \in Sessions : SocketClose(s)
  \/ \E s \in Sessions, r \in RoomInputs, hookOk \in BOOLEAN : Op16Join(s, r, hookOk)
  \/ \E s \in Sessions, n \in KickNickInputs, reason \in KickReasonInputs : Op21Kick(s, n, reason)
  \/ \E s \in Sessions, buf \in SyncReplyInputs :
       Op128SyncReply(s, SubSeq(buf, 1, 4), SubSeq(buf, 5, Len(buf)))

SpecLate == Init /\ [][NextLate]_vars

\* ------------------------------------------------------------ vocabulary

Members(r) == Range(rooms[r].clients)
RoomsOf(s) == { r \in DOMAIN rooms : s \in Members(r) }
Registered(s) == \E k \in DOMAIN clients : clients[k] = s

\* a session that was admitted and on which disconnect has not run:
\* disconnect is the only caller of socket.end()
Live(s) == sock[s] = "open"

\* the entries of the last handler's log
LogHas(kind, s) == \E i \in 1..Len(log) : log[i][1] = kind /\ log[i][2] = s
WritesTo(s) == SelectSeq(log, LAMBDA e : e[1] = "write" /\ e[2] = s)
FramesTo(s) == [i \in 1..Len(WritesTo(s)) |-> WritesTo(s)[i][3]]

\* SocketClose drops the session object: nothing may still refer to it
DeadIsUnreferenced ==
  \A s \in Sessions :
    sock[s] = "dead" => room[s] = Null /\ RoomsOf(s) = {} /\ ~Registered(s)

\* Client.room is the room that lists the client, and a room in the table
RoomFieldIsMembership ==
  \A s \in Sessions :
    /\ room[s] # Null => room[s] \in DOMAIN rooms /\ RoomsOf(s) = {room[s]}
    /\ room[s] = Null => RoomsOf(s) = {}


\* dataHandler has passed the handshake (0x01 written, client.js:143): the
\* main loop runs, or the connect hook refused and dataHandler returned
HandshakeDone(s) == pc[s] = "main" \/ (pc[s] = "done" /\ nick[s] # Null)

\* how often buf was written to s by the last handler
TimesSent(lg, s, buf) ==
  Cardinality({ i \in 1..Len(lg) : lg[i] = Write(s, buf) })

\* position of the first entry <<kind, s, ...>> in a log, 0 if there is none
FirstAt(lg, kind, s) ==
  LET at == { i \in 1..Len(lg) : lg[i][1] = kind /\ lg[i][2] = s }
  IN  IF at = {} THEN 0 ELSE CHOOSE i \in at : \A j \in at : i <= j

\* ------------------------------------------------------------ C1

\* C1: the connected sessions (admitted, disconnect not yet run on them) hold
\* pairwise distinct ids, each in 0..254.
C1_DistinctIds ==
  \A s, t \in Sessions :
    Live(s) /\ Live(t) /\ s # t => id[s] # id[t] /\ id[s] \in 0..(MaxClients - 1)

\* ------------------------------------------------------------ C2

\* C2: a session that has completed the handshake and has not been
\* disconnected is in the member set of exactly one room, and no session is
\* ever in the member sets of two rooms.
C2_ExactlyOneRoom ==
  \A s \in Sessions :
    /\ Cardinality(RoomsOf(s)) <= 1
    /\ Live(s) /\ HandshakeDone(s) => Cardinality(RoomsOf(s)) = 1

\* ------------------------------------------------------------ C3

\* C3: the op of every room that has members is the id of one of its members.
C3_OpIsMemberId ==
  \A r \in DOMAIN rooms :
    Members(r) # {} => \E m \in Members(r) : rooms[r].op = OpId(id[m])


\* ------------------------------------------------------------ C4

\* C4: between handlers every room of the table has at least one member; a
\* room a handler created ('roomCreate') holds the session that joined it, and
\* a room whose last member left ('roomDelete') has gone from the table
\* unless the same handler created it anew.
C4_NoEmptyRoom ==
  /\ \A r \in DOMAIN rooms : Len(rooms[r].clients) >= 1
  /\ \A s \in Sessions : room[s] # Null => room[s] \in DOMAIN rooms
  /\ \A i \in 1..Len(log) :
       /\ log[i][1] = "server.emit:roomCreate" =>
            log[i][3] \in DOMAIN rooms /\ log[i][2] \in Members(log[i][3])
       /\ log[i][1] = "server.emit:roomDelete" =>
            \/ log[i][3] \notin DOMAIN rooms
            \/ \E j \in (i + 1)..Len(log) :
                 log[j][1] = "server.emit:roomCreate" /\ log[j][3] = log[i][3]

\* a room other than the lobby was left by its last member and is gone, while
\* the lobby lives on with a member
C4_Witness ==
  /\ \E i \in 1..Len(log) :
       log[i][1] = "server.emit:roomDelete" /\ log[i][3] = RoomR
  /\ RoomR \notin DOMAIN rooms
  /\ Lobby \in DOMAIN rooms


\* ------------------------------------------------------------ C5

\* the socket events that call Client.disconnect
DisconnectEvents == {"on:timeout", "on:error", "on:end"}

\* disconnect has run on the session
Disconnected(s) == sock[s] \in {"ended", "dead"}

\* C5: disconnect invoked on a session that has already been disconnected
\* emits no 'disconnect' event and leaves the client table and the rooms as
\* they were.
C5_DisconnectIdempotent ==
  [][\A s \in Sessions :
       (/\ Disconnected(s)
        /\ Len(log') >= 1
        /\ log'[1][1] \in DisconnectEvents
        /\ log'[1][2] = s)
       => /\ FirstAt(log', "emit:disconnect", s) = 0
          /\ clients' = clients
          /\ rooms' = rooms]_vars

\* ------------------------------------------------------------ C6

\* C6: disconnect invoked on a connected session emits 'disconnect', removes
\* the session from the client table, ends the socket and parts the room, in
\* that order; afterwards the session's id and nickname are held by no
\* registered client, the session is in no room, and every other member of
\* the room it was in (those still connected) has been sent [18, id] exactly
\* once.
C6_DisconnectCompletes ==
  [][\A s \in Sessions :
       (Live(s) /\ FirstAt(log', "emit:disconnect", s) > 0) =>
         LET e == FirstAt(log', "emit:disconnect", s)
             d == FirstAt(log', "clients.delete", s)
             k == FirstAt(log', "socket.end", s)
             p == FirstAt(log', "room.emit:part", s)
         IN  /\ e < d /\ d < k
             /\ room[s] # Null => k < p
             /\ id[s] \notin DOMAIN clients'
             /\ \A key \in DOMAIN clients' :
                  /\ clients'[key] # s
                  /\ nick[s] # Null => nick'[clients'[key]] # nick[s]
             /\ \A r \in DOMAIN rooms' : s \notin Range(rooms'[r].clients)
             /\ room[s] # Null =>
                  \A m \in Members(room[s]) \ {s} :
                    Live(m) => TimesSent(log', m, <<18, id[s]>>) = 1]_vars

\* ------------------------------------------------------------ C7

\* C7: when a connected member c of a room sends the relayable opcode 33
\* with payload p, every other connected member of the room is sent exactly
\* [33, c.id, p], and c and the sessions outside the room are sent nothing.
C7_RelayFidelity ==
  (Len(log) >= 1 /\ log[1][1] = "on:op" /\ Head(log[1][3]) = 33) =>
    LET c == log[1][2]
        p == Tail(log[1][3])
    IN  (Live(c) /\ room[c] # Null) =>
          \A m \in Sessions :
            Live(m) =>
              FramesTo(m) = IF m \in Members(room[c]) \ {c}
                            THEN << <<33, id[c]>> \o p >> ELSE <<>>

\* ------------------------------------------------------------ C8

\* the frames written to c by the entries of the log after position i
FramesAfter(i, c) ==
  LET w == SelectSeq(SubSeq(log, i + 1, Len(log)),
                     LAMBDA e : e[1] = "write" /\ e[2] = c)
  IN  [j \in 1..Len(w) |-> w[j][3]]

\* the members a room had before c joined it as its newest member
Before(r, c) == SelectSeq(rooms[r].clients, LAMBDA m : m # c)

\* the roster of section 4.4, steps 1 and 2
ExpectedRoster(before) ==
  << <<16, Len(before)>> >>
  \o [j \in 1..Len(before) |-> <<id[before[j]]>> \o nick[before[j]] \o <<0>>]

\* C8: a join of a connected session sends the joiner the roster of exactly
\* the members present before it, sends each of them that is connected
\* [17, joiner.id, joiner.nick, 0] exactly once, and then adds the joiner.
C8_JoinRoster ==
  \A i \in 1..Len(log) :
    (log[i][1] = "room.emit:join" /\ Live(log[i][2])) =>
      LET c == log[i][2]
          r == log[i][3]
          before == Before(r, c)
          roster == ExpectedRoster(before)
          got == FramesAfter(i, c)
      IN  /\ c \in Members(r)
          /\ Len(got) >= Len(roster)
          /\ SubSeq(got, 1, Len(roster)) = roster
          /\ \A m \in Range(before) :
               Live(m) => TimesSent(log, m, <<17, id[c]>> \o nick[c] \o <<0>>) = 1

\* ------------------------------------------------------------ C9

\* the replay of section 4.4, step 3, for one member
ExpectedState(m) ==
     Repeat(<<35, id[m]>>, brush[m])
  \o << <<34, id[m], 4, 4>>,
        <<37, id[m], 0, 1>>, <<37, id[m], 64, 0>>,
        <<37, id[m], 128, 0>>, <<37, id[m], 192, 0>>,
        <<38, id[m], 48>>,
        <<65, id[m], 0, 0, 0, 0>> >>

ExpectedReplay(before) ==
  ExpectedRoster(before)
  \o Flatten([j \in 1..Len(before) |-> ExpectedState(before[j])])

\* C9: the handler that joins c to a room writes to c, from the join on,
\* exactly the replay of the members present before it; and a relayed frame is
\* written only to sessions whose own join of the sender's room has finished.
\* So on every socket the replay of a room precedes each broadcast a member of
\* that room originates afterwards.
C9_ReplayBeforeBroadcast ==
  /\ \A i \in 1..Len(log) :
       log[i][1] = "room.emit:join" =>
         FramesAfter(i, log[i][2]) = ExpectedReplay(Before(log[i][3], log[i][2]))
  /\ (Len(log) >= 1 /\ log[1][1] = "on:op" /\ Head(log[1][3]) = 33) =>
       \A j \in 2..Len(log) :
         log[j][1] = "write" =>
           /\ log[j][2] # log[1][2]
           /\ room[log[j][2]] # Null
           /\ room[log[j][2]] = room[log[1][2]]

\* a member that has changed its brush shape relays to a session that joined
\* its room after it
C9_Witness ==
  /\ Len(log) >= 2 /\ log[1][1] = "on:op" /\ Head(log[1][3]) = 33
  /\ log[2][1] = "write"
  /\ LET c == log[1][2]
         m == log[2][2]
     IN  /\ room[c] = RoomR /\ room[m] = RoomR
         /\ rooms[RoomR].clients = <<c, m>>
         /\ brush[c] >= 1

\* ------------------------------------------------------------ C10

\* C10: no two connected sessions that have completed the handshake share a
\* nickname.
C10_DistinctNicks ==
  \A s, t \in Sessions :
    (s # t /\ Live(s) /\ Live(t) /\ HandshakeDone(s) /\ HandshakeDone(t))
      => nick[s] # nick[t]

\* ------------------------------------------------------------ C11

\* the frame and the close a refused connection gets
FullRefusal(lg) ==
  /\ Len(lg) = 3
  /\ lg[2] = Write(lg[1][2], <<0, TxtServerFull, 0>>)
  /\ lg[3][1] = "socket.end"

\* C11: the client table never holds more than 255 clients; a connection
\* that arrives while 255 are registered is sent the capacity frame and
\* closed, no session is created and no table changes; a connection that
\* arrives while fewer are registered is admitted and adds one entry.
C11_Cap ==
  /\ [](Cardinality(DOMAIN clients) <= MaxClients)
  /\ [][(Len(log') >= 1 /\ log'[1][1] = "on:connection") =>
         IF Cardinality(DOMAIN clients) >= MaxClients
         THEN /\ FullRefusal(log')
              /\ UNCHANGED <<pc, id, nick, room, sock, brush, brushSelection, isChat, clients, rooms>>
         ELSE /\ log' = << Emit("on:connection", log'[1][2], <<>>) >>
              /\ Cardinality(DOMAIN clients') = Cardinality(DOMAIN clients) + 1
              /\ clients'[id'[log'[1][2]]] = log'[1][2]
              /\ sock'[log'[1][2]] = "open"]_vars

\* the 256th connection has been refused: the table holds 255 clients, the
\* last handler wrote the capacity frame
C11_Witness ==
  /\ Cardinality(DOMAIN clients) = MaxClients
  /\ FullRefusal(log)
  /\ \E s \in Sessions : Live(s) /\ id[s] = MaxClients - 1

\* ------------------------------------------------------------ C12

\* C12: a handshake that fails validation (it does not write 0x01) writes an
\* error frame [0, reason, 0] and closes: disconnect runs, the session is
\* not in the client table afterwards and is in no room.
C12_HandshakeFailureCloses ==
  \A s \in Sessions :
    (/\ Len(log) >= 1
     /\ log[1] = Emit("on:handshake", s, <<>>)
     /\ TimesSent(log, s, <<1>>) = 0)
    => /\ Len(log) >= 2
       /\ log[2][1] = "write" /\ log[2][2] = s
       /\ Len(log[2][3]) = 3 /\ log[2][3][1] = 0 /\ log[2][3][3] = 0
       /\ FirstAt(log, "emit:disconnect", s) > 2
       /\ FirstAt(log, "socket.end", s) > 2
       /\ sock[s] # "open"
       /\ ~Registered(s)
       /\ room[s] = Null /\ RoomsOf(s) = {}

\* ------------------------------------------------------------ C13

\* C13: after a handshake that passed validation, a session the connect hook
\* refused is terminated (not in the lobby or any room, socket ended, not in
\* the client table, its nickname held by no registered client), and a
\* session the hook accepted is a member of the lobby.
C13_ConnectHook ==
  \A i \in 1..Len(log) :
    log[i][1] = "hooks.connect" =>
      LET s == log[i][2] IN
      IF log[i][3] = <<1>>
      THEN room[s] = Lobby /\ Lobby \in DOMAIN rooms /\ s \in Members(Lobby)
      ELSE /\ room[s] = Null /\ RoomsOf(s) = {}
           /\ sock[s] # "open"
           /\ ~Registered(s)
           /\ ~NickTaken(s, nick[s])

\* ------------------------------------------------------------ C14

\* the last handler ran opcode 21 for session s
KickRequestBy(lg, s) ==
  Len(lg) >= 1 /\ lg[1][1] = "on:op" /\ lg[1][2] = s /\ Head(lg[1][3]) = 21

\* the two NUL-terminated fields of the request [21, nick, 0, reason, 0]
FirstNul(buf) == CHOOSE i \in 1..Len(buf) : buf[i] = 0 /\ \A j \in 1..(i - 1) : buf[j] # 0
KickNick(lg) == SubSeq(lg[1][3], 2, FirstNul(lg[1][3]) - 1)
KickReason(lg) == SubSeq(lg[1][3], FirstNul(lg[1][3]) + 1, Len(lg[1][3]) - 1)

\* a serverMessage frame: [22, text, 0, r, g, b]
IsServerMessage(buf) == Len(buf) >= 5 /\ buf[1] = 22 /\ buf[Len(buf) - 3] = 0

\* C14: a kick request by a member of the lobby, or by a member whose id is
\* not the room's op, disconnects nobody: the requester is sent one
\* serverMessage and nothing else is written, and the client table, the
\* rooms (members and op), every session's room and every socket stay as
\* they were.
C14_KickRefused ==
  [][\A s \in Sessions :
       (/\ KickRequestBy(log', s)
        /\ pc[s] = "main" /\ room[s] # Null
        /\ (room[s] = Lobby \/ rooms[room[s]].op # OpId(id[s])))
       => /\ Len(log') = 2
          /\ log'[2][1] = "write" /\ log'[2][2] = s
          /\ IsServerMessage(log'[2][3])
          /\ UNCHANGED <<clients, rooms, room, sock, pc, nick, id>>]_vars

\* a member that is not the op named another member of its room and was
\* told that it cannot kick there
C14_Witness ==
  \E s, t \in Sessions :
    /\ s # t
    /\ Len(log) = 2 /\ KickRequestBy(log, s) /\ KickNick(log) = nick[t]
    /\ log[2] = Write(s, <<22, TxtNoKickHere, 0, 127, 255, 255>>)
    /\ room[s] = RoomR /\ room[t] = RoomR
    /\ rooms[RoomR].op = OpId(id[t])
    /\ Live(s) /\ Live(t)

\* ------------------------------------------------------------ C15

\* the member kick authority belongs to: the first joiner, and after it left
\* the first remaining member, which is the first of the member set
Operator(r) == Head(rooms[r].clients)

\* the members of r that carry the nickname n, in member-set order
NamedIn(r, n) == SelectSeq(rooms[r].clients, LAMBDA m : nick[m] = n)

\* the notice Client.kick writes to the kicked member
KickNotice(t, source, reason) ==
  Write(t, <<22, TxtKickedBy>> \o nick[source] \o <<32, 40>>
           \o (IF reason = <<>> THEN <<TxtNoReason>> ELSE reason)
           \o <<41, 0, 255, 50, 50>>)

\* C15: in a room other than the lobby, a valid kick request (printable
\* reason of at most 200 bytes) from the room's operator, naming the nickname
\* of exactly one other member t, kicks t and only t: t is sent the kick
\* notice, is disconnected and leaves the room; the other members stay.
C15_OperatorKicks ==
  [][\A s, t \in Sessions :
       (/\ KickRequestBy(log', s)
        /\ pc[s] = "main" /\ Live(s)
        /\ room[s] # Null /\ room[s] # Lobby
        /\ s = Operator(room[s])
        /\ MatchesPrintable(KickReason(log')) /\ Len(KickReason(log')) <= 200
        /\ t # s /\ Live(t)
        /\ NamedIn(room[s], KickNick(log')) = <<t>>)
       => /\ TimesSent(log', t, KickNotice(t, s, KickReason(log'))[3]) = 1
          /\ FirstAt(log', "emit:kicked", t) > 0
          /\ FirstAt(log', "emit:disconnect", t) > 0
          /\ sock'[t] # "open"
          /\ room'[t] = Null
          /\ rooms'[room[s]].clients
               = SelectSeq(rooms[room[s]].clients, LAMBDA m : m # t)
          /\ \A m \in Sessions \ {t} : room'[m] = room[m] /\ sock'[m] = sock[m]]_vars

\* ------------------------------------------------------------ C16

\* the last handler ran opcode 37 for session s
SelectBy(lg, s) ==
  Len(lg) >= 1 /\ lg[1][1] = "on:op" /\ lg[1][2] = s /\ Head(lg[1][3]) = 37

\* the handler wrote nothing to any socket
NoWrites(lg) == \A i \in 1..Len(lg) : lg[i][1] # "write"

\* C16: opcode 37 from a connected session with payload (194, 195) sets
\* isChat and relays nothing; with any other payload (a, b) isChat stays as it
\* was, (a, b) is stored in the session's brush-selection mirror and
\* [37, id, a, b] is written once to every other connected member of the room.
C16_SelectOrChat ==
  [][\A s \in Sessions :
       (SelectBy(log', s) /\ pc[s] = "main" /\ Live(s)) =>
         LET data == Tail(log'[1][3]) IN
         IF data = <<194, 195>>
         THEN /\ isChat'[s]
              /\ NoWrites(log')
              /\ brushSelection'[s] = brushSelection[s]
         ELSE /\ isChat'[s] = isChat[s]
              /\ \E i \in 1..Len(brushSelection'[s]) : brushSelection'[s][i] = data
              /\ room[s] # Null =>
                   \A m \in Members(room[s]) \ {s} :
                     Live(m) => TimesSent(log', m, <<37, id[s]>> \o data) = 1]_vars

\* ------------------------------------------------------------ C17

\* C17: when the main loop of a connected session reads an opcode byte that
\* is not in the dispatch table, the bytes that follow it are not handled as
\* messages, whether the session is terminated or only stops consuming:
\* nothing is written to any socket, and the client table, the rooms and the
\* mirror fields stay as they were.
C17_UnknownOpcode ==
  [][\A s \in Sessions :
       (/\ Len(log') >= 1 /\ log'[1][1] = "on:op" /\ log'[1][2] = s
        /\ Head(log'[1][3]) \notin DispatchTable
        /\ pc[s] = "main" /\ Live(s))
       => /\ NoWrites(log')
          /\ UNCHANGED <<clients, rooms, brush, brushSelection, isChat>>
          /\ \A m \in Sessions \ {s} : room'[m] = room[m] /\ sock'[m] = sock[m]]_vars

\* ------------------------------------------------------------ C18

\* C18: joining a connected client to a room it is not a member of (a room
\* that does not exist, or one whose members are all connected) and parting
\* it at once leaves the registry as it was: the same rooms with the same
\* members and op, and the same client table.
C18_JoinPartRestores ==
  [][(/\ Len(log') >= 1 /\ log'[1][1] = "call:join-part"
      /\ log'[1][3] \in DOMAIN rooms => \A m \in Members(log'[1][3]) : Live(m))
       => rooms' = rooms /\ clients' = clients]_vars

\* ------------------------------------------------------------ C19

\* the sessions the entries of the log after position i sent [128, c.id] to
SyncRequests(i, c) ==
  LET w == SelectSeq(SubSeq(log, i + 1, Len(log)),
                     LAMBDA e : e[1] = "write" /\ e[3] = <<128, id[c]>>)
  IN  [j \in 1..Len(w) |-> w[j][2]]

\* C19: a join of a connected session into a room of connected members sends
\* at most one sync request [128, joiner.id], to a member present before the
\* join that is not in chat mode; it sends exactly one when such a member
\* exists and none when there is none.
C19_OneSyncRequest ==
  \A i \in 1..Len(log) :
    (/\ log[i][1] = "room.emit:join"
     /\ log[i][3] \in DOMAIN rooms
     /\ log[i][2] \in Members(log[i][3])
     /\ \A m \in Members(log[i][3]) : Live(m)) =>
      LET c == log[i][2]
          before == Before(log[i][3], c)
          able == SelectSeq(before, LAMBDA m : ~isChat[m])
          sent == SyncRequests(i, c)
      IN  /\ Len(sent) <= 1
          /\ \A j \in 1..Len(sent) : sent[j] \in Range(able)
          /\ Len(sent) = 1 <=> able # <<>>

\* ------------------------------------------------------------ C20

\* the slots of the mirror that the join replay emits (room.js:59-61), as
\* positions of the array
ReplayedSlots == 1..4

\* C20: the brush-selection mirror of a session keeps exactly the four slots
\* the join replay emits: a selection (a, b) that opcode 37 stores leaves the
\* mirror with four slots and is held by one of them, the other slots as
\* they were.
C20_MirrorSlots ==
  [][\A s \in Sessions :
       (SelectBy(log', s) /\ brushSelection'[s] # brushSelection[s]) =>
         LET data == Tail(log'[1][3]) IN
         /\ DOMAIN brushSelection'[s] = ReplayedSlots
         /\ \E i \in ReplayedSlots :
              brushSelection'[s] = [brushSelection[s] EXCEPT ![i] = data]]_vars

\* ------------------------------------------------------------ C21

\* the last handler ran, for session s, an opcode whose frames are written to
\* other clients on the sender's behalf (a relay, a sync reply, a sync
\* properties reply)
ForwardBy(lg, s) ==
  /\ Len(lg) >= 1 /\ lg[1][1] = "on:op" /\ lg[1][2] = s
  /\ Head(lg[1][3]) \in DispatchTable \ {16, 21}

\* the sessions other than s the handler wrote to
WrittenOthers(lg, s) ==
  { lg[i][2] : i \in { j \in 1..Len(lg) : lg[j][1] = "write" /\ lg[j][2] # s } }

\* C21: room isolation. Every frame a handler writes to another client on
\* behalf of a connected session c in its main loop goes to a member of c's
\* current room that has finished its handshake: never to a client of another
\* room, never to a client still in its handshake.
C21_RoomIsolation ==
  [][\A c \in Sessions :
       (ForwardBy(log', c) /\ pc[c] = "main" /\ Live(c)) =>
         \A t \in WrittenOthers(log', c) :
           /\ room[c] # Null
           /\ room[c] \in DOMAIN rooms
           /\ t \in Members(room[c])
           /\ pc[t] = "main"]_vars

\* ------------------------------------------------------------ C22

\* Client.disconnect has run for session s and its socket has not closed yet:
\* the server's side is finished, the peer's bytes can still arrive
Lingering(s) == pc[s] = "main" /\ sock[s] = "ended"

\* the last handler ran an opcode of the main loop for session s
OpBy(lg, s) == Len(lg) >= 1 /\ lg[1][1] = "on:op" /\ lg[1][2] = s

\* C22: a message of a session that has been disconnected (kick or idle
\* timeout) has no effect when the main loop reads it: nothing is written to
\* another client, the client table, the rooms and every session's room stay
\* as they were, and the handler does not fail.
C22_LateBytesInert ==
  [][\A s \in Sessions :
       (Lingering(s) /\ OpBy(log', s)) =>
         /\ WrittenOthers(log', s) = {}
         /\ clients' = clients
         /\ rooms' = rooms
         /\ room' = room
         /\ pc'[s] = pc[s]]_vars

====
